---- MODULE Spec2Model ----
(***************************************************************************)
(* A model of econci's Complexity engine (src/econci/complexity.py) and of *)
(* the guards that wrap its public methods (src/econci/utils.py).          *)
(*                                                                         *)
(* Numbers.  pandas/numpy compute in IEEE floating point.  The model keeps *)
(* every number as an exact fraction <<n, d>> in lowest terms with d > 0,  *)
(* and keeps the three special values the code can produce: NaN = <<0,0>>, *)
(* +inf = <<1,0>>, -inf = <<-1,0>>.  Rounding is not modelled.             *)
(*                                                                         *)
(* Objects.  The engine instance is the function `self` from attribute     *)
(* names to values; hasattr(self, n) is n \in DOMAIN self.  Inside the     *)
(* class body Python rewrites an identifier self.__x to                    *)
(* self._Complexity__x (name mangling); a string literal handed to hasattr *)
(* is not rewritten.                                                       *)
(***************************************************************************)
EXTENDS Integers, Sequences, FiniteSets, TLC

VARIABLES args, self, last, held

vars == <<args, self, last, held>>

(***************************************************************************)
(* Bounds of the model.                                                    *)
(***************************************************************************)
MaxRows == 3          \* rows of the observation table
EigMax == 1           \* entries of an eigenvector returned by eig: 0..EigMax

Entities == {1, 2}    \* labels of the `c` column
Items == {1, 2, 3}    \* labels of the `p` column
Values == {0, 1}      \* flows of the `values` column

(***************************************************************************)
(* Floating point values as exact fractions.                               *)
(***************************************************************************)
NaN == <<0, 0>>
PosInf == <<1, 0>>
NegInf == <<-1, 0>>
Zero == <<0, 1>>
One == <<1, 1>>

Abs(i) == IF i < 0 THEN -i ELSE i

Sgn(i) == IF i > 0 THEN 1 ELSE IF i < 0 THEN -1 ELSE 0

RECURSIVE Gcd(_, _)
Gcd(a, b) == IF b = 0 THEN a ELSE Gcd(b, a % b)

\* The value n/d of a division whose operands are integers (d may be 0).
Frac(n, d) ==
    IF d = 0 THEN <<Sgn(n), 0>>
    ELSE LET g == Gcd(Abs(n), Abs(d))
         IN  <<(Sgn(d) * n) \div g, Abs(d) \div g>>

IsNaN(x) == x = NaN
IsFinite(x) == x[2] # 0

FNeg(x) == <<-x[1], x[2]>>

FAdd(x, y) ==
    IF IsNaN(x) \/ IsNaN(y) THEN NaN
    ELSE IF ~IsFinite(x) THEN (IF ~IsFinite(y) /\ y # x THEN NaN ELSE x)
    ELSE IF ~IsFinite(y) THEN y
    ELSE Frac(x[1] * y[2] + y[1] * x[2], x[2] * y[2])

FSub(x, y) == FAdd(x, FNeg(y))

FMul(x, y) ==
    IF IsNaN(x) \/ IsNaN(y) THEN NaN
    ELSE IF ~IsFinite(x) \/ ~IsFinite(y)
         THEN <<Sgn(x[1]) * Sgn(y[1]), 0>>      \* 0 * inf = NaN = <<0, 0>>
    ELSE Frac(x[1] * y[1], x[2] * y[2])

FDiv(x, y) ==
    IF IsNaN(x) \/ IsNaN(y) THEN NaN
    ELSE IF ~IsFinite(x) THEN (IF ~IsFinite(y) THEN NaN
                               ELSE <<x[1] * (IF y[1] < 0 THEN -1 ELSE 1), 0>>)
    ELSE IF ~IsFinite(y) THEN Zero
    ELSE Frac(x[1] * y[2], x[2] * y[1])         \* x/0 = +-inf, 0/0 = NaN

\* Comparisons: every comparison with NaN is False.
FLt(x, y) ==
    /\ ~IsNaN(x)
    /\ ~IsNaN(y)
    /\ x # y
    /\ IF ~IsFinite(x) THEN x = NegInf
       ELSE IF ~IsFinite(y) THEN y = PosInf
       ELSE x[1] * y[2] < y[1] * x[2]

FGe(x, y) == ~IsNaN(x) /\ ~IsNaN(y) /\ ~FLt(x, y)

FGt(x, y) == FLt(y, x)

\* numpy.maximum: NaN if either operand is NaN.
FMaximum(x, y) == IF IsNaN(x) \/ IsNaN(y) THEN NaN ELSE IF FLt(x, y) THEN y ELSE x

\* The sum of f over S, as numpy adds (NaN propagates).
RECURSIVE FSum(_, _)
FSum(f, S) ==
    IF S = {} THEN Zero
    ELSE LET x == CHOOSE y \in S : TRUE
         IN  FAdd(f[x], FSum(f, S \ {x}))

\* pandas sum(): skipna=True, a NaN cell counts as 0.
RECURSIVE FSumSkipNa(_, _)
FSumSkipNa(f, S) ==
    IF S = {} THEN Zero
    ELSE LET x == CHOOSE y \in S : TRUE
         IN  FAdd(IF IsNaN(f[x]) THEN Zero ELSE f[x], FSumSkipNa(f, S \ {x}))

RECURSIVE IntSum(_, _)
IntSum(f, S) ==
    IF S = {} THEN 0
    ELSE LET x == CHOOSE y \in S : TRUE
         IN  f[x] + IntSum(f, S \ {x})

(***************************************************************************)
(* Frames and series.  A DataFrame is [index, columns, val] with val a     *)
(* function on index \X columns; a Series is [index, val].                 *)
(***************************************************************************)
\* (f @@ <<>> is f, with every value computed once.)
Frame(idx, cols, f(_, _)) ==
    [index |-> idx, columns |-> cols,
     val |-> [rc \in idx \X cols |-> f(rc[1], rc[2])] @@ <<>>]

Series(idx, f(_)) == [index |-> idx, val |-> [i \in idx |-> f(i)] @@ <<>>]

Transposed(m) == Frame(m.columns, m.index, LAMBDA r, c : m.val[<<c, r>>])

\* DataFrame.dot: the matrix product a . b (a.columns = b.index).
Dot(a, b) ==
    Frame(a.index, b.columns,
          LAMBDA r, c : FSum([k \in a.columns |->
                                  FMul(a.val[<<r, k>>], b.val[<<k, c>>])],
                             a.columns))

\* DataFrame / Series: the Series is aligned on the frame's columns.
DivByColumns(m, s) ==
    Frame(m.index, m.columns, LAMBDA r, c : FDiv(m.val[<<r, c>>], s.val[c]))

\* DataFrame.sum(axis=1) and DataFrame.sum(axis=0).
SumAxis1(m) == Series(m.index,
                      LAMBDA r : FSumSkipNa([c \in m.columns |-> m.val[<<r, c>>]],
                                            m.columns))

SumAxis0(m) == Series(m.columns,
                      LAMBDA c : FSumSkipNa([r \in m.index |-> m.val[<<r, c>>]],
                                            m.index))

AllFinite(m) == \A rc \in DOMAIN m.val : IsFinite(m.val[rc])

(***************************************************************************)
(* Attribute names.  Mangled("__m") is what self.__m names inside the      *)
(* class Complexity.                                                       *)
(***************************************************************************)
Mangled(name) == "_Complexity" \o name

hasattr(obj, name) == name \in DOMAIN obj

\* obj with attribute `name` bound (or rebound) to `value`.
setattr(obj, name, value) ==
    [n \in (DOMAIN obj) \cup {name} |-> IF n = name THEN value ELSE obj[n]] @@ <<>>

(***************************************************************************)
(* Complexity.__check_df and the pipeline stages of calculate_indexes.     *)
(***************************************************************************)
\* isinstance(df, pd.DataFrame); a failure raises the built-in Exception.
check_df(df) == IF df.kind = "DataFrame" THEN "ok" ELSE "Exception"

\* groupby([c, p])[values].sum().unstack().fillna(0): one row per entity
\* and one column per item seen in the table, the cell the sum of the
\* values of the rows of that pair, 0 for a pair without rows.
get_m(df, c, p, values) ==
    LET idx == {row[c] : row \in df.rows}
        cols == {row[p] : row \in df.rows}
        cellRows(r, k) == {row \in df.rows : row[c] = r /\ row[p] = k}
    IN  Frame(idx, cols,
              LAMBDA r, k : <<IntSum([row \in cellRows(r, k) |-> row[values]],
                                     cellRows(r, k)), 1>>)

\* Balassa's RCA: (x / sum_c) / (sum_p / sum_tt), column by column.
calc_rca(m) ==
    LET sum_p == SumAxis0(m)
        sum_c == SumAxis1(m)
        sum_tt == FSumSkipNa(sum_c.val, sum_c.index)
    IN  Frame(m.index, m.columns,
              LAMBDA r, k : FDiv(FDiv(m.val[<<r, k>>], sum_c.val[r]),
                                 FDiv(sum_p.val[k], sum_tt)))

\* m_cp[m_cp >= thresh] = 1, and then, on the result, m_cp[m_cp < thresh] = 0.
ThresholdGe(m, thresh) ==
    Frame(m.index, m.columns,
          LAMBDA r, k : IF FGe(m.val[<<r, k>>], thresh) THEN One ELSE m.val[<<r, k>>])

ThresholdLt(m, thresh) ==
    Frame(m.index, m.columns,
          LAMBDA r, k : IF FLt(m.val[<<r, k>>], thresh) THEN Zero ELSE m.val[<<r, k>>])

\* (m_cp != 0).all(axis=0) is a boolean Series over the columns; its .index
\* is the labels of that Series, that is every column, whatever the booleans.
AllAxis0Index(m) == m.columns

\* (m_cp != 0).all(axis=1).index: every row label.
AllAxis1Index(m) == m.index

SelectColumns(m, cols) == Frame(m.index, cols, LAMBDA r, k : m.val[<<r, k>>])

SelectRows(m, idx) == Frame(idx, m.columns, LAMBDA r, k : m.val[<<r, k>>])

get_m_cp(rca, thresh) ==
    LET t1 == ThresholdGe(rca, thresh)
        t2 == ThresholdLt(t1, thresh)
        t3 == SelectColumns(t2, AllAxis0Index(t2))
    IN  SelectRows(t3, AllAxis1Index(t3))

get_diversity(m_cp) == SumAxis1(m_cp)

get_ubiquity(m_cp) == SumAxis0(m_cp)

\* ((m_cp . (m_cp / kp0).T) / kc0).T
m_tilda_cc(m_cp, kc0, kp0) ==
    Transposed(DivByColumns(Dot(m_cp, Transposed(DivByColumns(m_cp, kp0))), kc0))

\* ((m_cp.T . (m_cp.T / kc0).T) / kp0).T
m_tilda_pp(m_cp, kc0, kp0) ==
    Transposed(DivByColumns(Dot(Transposed(m_cp),
                                Transposed(DivByColumns(Transposed(m_cp), kc0))),
                            kp0))

\* numpy.linalg.eig raises LinAlgError on a matrix holding NaN or inf;
\* vals.argsort()[-2] raises IndexError when there is one eigenvalue.
EigOutcome(t) ==
    IF ~AllFinite(t) THEN "LinAlgError"
    ELSE IF Cardinality(t.index) < 2 THEN "IndexError"
    ELSE "ok"

\* The eigenvectors eig may hand back for an index: LAPACK fixes neither
\* their sign nor, for the model, their direction.
EigVectors(idx) == [idx -> 0..EigMax]

RECURSIVE GcdOf(_, _)
GcdOf(f, S) ==
    IF S = {} THEN 0
    ELSE LET x == CHOOSE y \in S : TRUE
         IN  Gcd(Abs(f[x]), GcdOf(f, S \ {x}))

\* A vector of floats known up to its (positive) standard deviation:
\*   kind "std":  dir / std(dir), dir an integer vector of sum 0, not all 0,
\*                with no common factor: mean 0 and standard deviation 1;
\*   kind "zero": every entry 0;   kind "nan": every entry NaN.
StdVector(idx, dir) == [kind |-> "std", index |-> idx, dir |-> dir]
ZeroVector(idx) == [kind |-> "zero", index |-> idx, dir |-> [i \in idx |-> 0]]
NaNVector(idx) == [kind |-> "nan", index |-> idx, dir |-> [i \in idx |-> 0]]

\* (v - v.mean()) / v.std(): 0/0 = NaN in every entry when v is constant.
Standardized(idx, v) ==
    LET n == Cardinality(idx)
        total == IntSum(v, idx)
        centred == [i \in idx |-> n * v[i] - total]
        g == GcdOf(centred, idx)
    IN  IF g = 0 THEN NaNVector(idx)
        ELSE StdVector(idx, [i \in idx |-> centred[i] \div g])

\* ci * s for a float s.
Scaled(ci, s) ==
    IF ci.kind = "nan" \/ IsNaN(s) \/ ~IsFinite(s) THEN NaNVector(ci.index)
    ELSE IF ci.kind = "zero" \/ s = Zero THEN ZeroVector(ci.index)
    ELSE IF s[1] > 0 THEN ci
    ELSE StdVector(ci.index, [i \in ci.index |-> -ci.dir[i]])

\* numpy.sign(numpy.corrcoef(k, ci)[0, 1]): NaN when k or ci has no
\* variance or ci holds NaN, else the sign of the covariance of k and ci.
CorrSign(k, ci) ==
    IF ci.kind # "std" \/ (\A i, j \in k.index : k.val[i] = k.val[j]) THEN NaN
    ELSE LET cov == FSum([i \in k.index |-> FMul(k.val[i], <<ci.dir[i], 1>>)],
                         k.index)
         IN  IF IsNaN(cov) THEN NaN ELSE <<Sgn(cov[1]), 1>>

\* corr_sign = np.sign(corr); ci *= corr_sign; return ci
fix_sign(k, ci) == Scaled(ci, CorrSign(k, ci))

\* eci = (eci - eci.mean()) / eci.std(), handed in as ci; then __fix_sign.
calc_eci(kc0, ci) == fix_sign(kc0, ci)

\* The same on the items, and then times -1.
calc_pci(kp0, ci) == Scaled(fix_sign(kp0, ci), FNeg(One))

\* calc_proximity without np.fill_diagonal(phi_pp.values, 0).
calc_proximity_unfilled(m_cp, kp0) ==
    LET phi == Dot(Transposed(m_cp), m_cp)
    IN  Frame(phi.index, phi.columns,
              LAMBDA q, x : FDiv(phi.val[<<q, x>>],
                                 FMaximum(kp0.val[x], kp0.val[q])))

\* phi = m_cp.T . m_cp; every column x of phi divided, entry by entry, by
\* np.maximum(kp0[x.name], kp0[x.index]); then the diagonal is set to 0.
calc_proximity(m_cp, kp0) ==
    LET phi == Dot(Transposed(m_cp), m_cp)
    IN  Frame(phi.index, phi.columns,
              LAMBDA q, x : IF q = x THEN Zero
                            ELSE FDiv(phi.val[<<q, x>>],
                                      FMaximum(kp0.val[x], kp0.val[q])))

\* m_cp . proximity / proximity.sum(axis=1)
calc_density(m_cp, proximity) ==
    DivByColumns(Dot(m_cp, proximity), SumAxis1(proximity))

\* 1 - density
calc_distance(density) ==
    Frame(density.index, density.columns,
          LAMBDA r, k : FSub(One, density.val[<<r, k>>]))

\* The standardized eigenvectors calc_eci / calc_pci may start from.
EigStandardized(idx) == {Standardized(idx, v) : v \in EigVectors(idx)}

\* Complexity.calculate_indexes: the ten stages in order; a stage that
\* raises leaves what the stages before it stored.  The outcomes of a call
\* on obj: the instance it leaves, how it ends (exc), and the standardized
\* vector that calc_eci handed to fix_sign (ci).
calculate_indexes(obj) ==
    LET m == get_m(obj[Mangled("__df")], obj[Mangled("__c")],
                   obj[Mangled("__p")], obj[Mangled("__values")])
        rca == calc_rca(m)
        m_cp == get_m_cp(rca, obj[Mangled("__m_cp_thresh")])
        kc0 == get_diversity(m_cp)
        kp0 == get_ubiquity(m_cp)
        s5 == setattr(setattr(setattr(setattr(setattr(obj,
                  Mangled("__m"), m),
                  Mangled("__rca"), rca),
                  Mangled("__m_cp"), m_cp),
                  Mangled("__diversity"), kc0),
                  Mangled("__ubiquity"), kp0)
        eigc == EigOutcome(m_tilda_cc(m_cp, kc0, kp0))
        eigp == EigOutcome(m_tilda_pp(m_cp, kc0, kp0))
        proximity == calc_proximity(m_cp, kp0)
        density == calc_density(m_cp, proximity)
        distance == calc_distance(density)
    IN  IF eigc # "ok"
        THEN {[self |-> s5, exc |-> eigc, ci |-> <<>>]}
        ELSE IF eigp # "ok"
        THEN {[self |-> setattr(s5, Mangled("__eci"), calc_eci(kc0, ci)),
               exc |-> eigp, ci |-> ci] : ci \in EigStandardized(m_cp.index)}
        ELSE {[self |-> setattr(setattr(setattr(setattr(setattr(s5,
                            Mangled("__eci"), calc_eci(kc0, v[1])),
                            Mangled("__pci"), calc_pci(kp0, v[2])),
                            Mangled("__proximity"), proximity),
                            Mangled("__density"), density),
                            Mangled("__distance"), distance),
               exc |-> "ok", ci |-> v[1]] :
                  v \in EigStandardized(m_cp.index) \X EigStandardized(m_cp.columns)}

(***************************************************************************)
(* Graphs (networkx.Graph): nodes, edges <<u, v>> with u <= v, weights.    *)
(***************************************************************************)
Graph(nodes, edges, w(_)) ==
    [nodes |-> nodes, edges |-> edges, weight |-> [e \in edges |-> w(e)] @@ <<>>]

\* nx.from_pandas_adjacency: the nodes are the columns; the entries that are
\* not 0 are added as edges row by row, so that for u < v the weight of
\* (v, u), written last, is the one the edge keeps.
from_pandas_adjacency(adj) ==
    Graph(adj.columns,
          {e \in adj.columns \X adj.columns :
               /\ e[1] <= e[2]
               /\ (adj.val[<<e[1], e[2]>>] # Zero \/ adj.val[<<e[2], e[1]>>] # Zero)},
          LAMBDA e : IF adj.val[<<e[2], e[1]>>] # Zero THEN adj.val[<<e[2], e[1]>>]
                     ELSE adj.val[<<e[1], e[2]>>])

\* e comes before f in G.edges: by first node, then by second.
EdgeBefore(e, f) == e[1] < f[1] \/ (e[1] = f[1] /\ e[2] < f[2])

\* Kruskal's algorithm on the edges sorted by decreasing weight (a stable
\* sort: edges of one weight stay in the order of G.edges); comp maps each
\* node to the representative of its component.
RECURSIVE KruskalEdges(_, _, _, _)
KruskalEdges(g, remaining, comp, tree) ==
    IF remaining = {} THEN tree
    ELSE LET e == CHOOSE x \in remaining :
                      \A y \in remaining \ {x} :
                          \/ FGt(g.weight[x], g.weight[y])
                          \/ (g.weight[x] = g.weight[y] /\ EdgeBefore(x, y))
         IN  IF comp[e[1]] = comp[e[2]]
             THEN KruskalEdges(g, remaining \ {e}, comp, tree)
             ELSE KruskalEdges(g, remaining \ {e},
                               [n \in g.nodes |-> IF comp[n] = comp[e[2]]
                                                  THEN comp[e[1]] ELSE comp[n]],
                               tree \cup {e})

\* nx.maximum_spanning_tree: every node, the tree's (forest's) edges.
maximum_spanning_tree(g) ==
    LET tree == KruskalEdges(g, g.edges, [n \in g.nodes |-> n], {})
    IN  Graph(g.nodes, tree, LAMBDA e : g.weight[e])

\* Complexity.__generate_graphs
generate_graphs(obj) ==
    LET cg == from_pandas_adjacency(obj[Mangled("__proximity")])
    IN  setattr(setattr(obj, Mangled("__complete_graph"), cg),
                Mangled("__maxst"), maximum_spanning_tree(cg))

\* e in G.edges() for e = (u, v, data): EdgeView.__contains__ looks at
\* e[:2].  (The graph the loop builds is the same if the test is always
\* False: adding an edge that is present, with the weight it has, changes
\* nothing.)
EdgeViewContains(g, e) == e \in g.edges

\* AddsEdge with >= for >.
AddsEdge_ge(ps, cg, e, edge_weight_thresh) ==
    ~EdgeViewContains(ps, e) /\ FGe(cg.weight[e], edge_weight_thresh)

\* (e not in product_space.edges()) and (e[2]['weight'] > edge_weight_thresh)
AddsEdge(ps, cg, e, edge_weight_thresh) ==
    ~EdgeViewContains(ps, e) /\ FGt(cg.weight[e], edge_weight_thresh)

\* for e in complete_graph.edges(data=True): ... add_edges_from([e])
RECURSIVE AddEdges(_, _, _, _)
AddEdges(ps, cg, todo, edge_weight_thresh) ==
    IF todo = {} THEN ps
    ELSE LET e == CHOOSE x \in todo : \A y \in todo \ {x} : EdgeBefore(x, y)
             next == IF AddsEdge(ps, cg, e, edge_weight_thresh)
                     THEN Graph(ps.nodes, ps.edges \cup {e},
                                LAMBDA x : IF x = e THEN cg.weight[e]
                                           ELSE ps.weight[x])
                     ELSE ps
         IN  AddEdges(next, cg, todo \ {e}, edge_weight_thresh)

\* if not hasattr(self, '__complete_graph'): the string is no identifier,
\* so it is looked up as written.
GraphsMissing(obj) == ~hasattr(obj, "__complete_graph")

\* The body of create_product_space: the instance it leaves.
create_product_space(obj, edge_weight_thresh) ==
    LET s1 == IF GraphsMissing(obj) THEN generate_graphs(obj) ELSE obj
        cg == s1[Mangled("__complete_graph")]
    IN  setattr(s1, Mangled("__product_space"),
                AddEdges(s1[Mangled("__maxst")], cg, cg.edges, edge_weight_thresh))

(***************************************************************************)
(* The guards of utils.py.                                                 *)
(***************************************************************************)
\* check_if_indexes looking for the name self.__m has inside the class.
check_if_indexes_mangled(obj) == hasattr(obj, Mangled("__m"))

check_if_indexes(obj) == hasattr(obj, "_m")

check_if_graph(obj) == hasattr(obj, "_complete_graph")

(***************************************************************************)
(* The read accessors (complexity.py, lines 228-291).                      *)
(***************************************************************************)
IndexAccessors == {"m", "rca", "m_cp", "diversity", "ubiquity", "eci", "pci",
                   "proximity", "density", "distance"}

GraphAccessors == {"complete_graph", "maxst", "product_space"}

Accessors == IndexAccessors \cup GraphAccessors

\* The attribute an accessor reads: self.__<name>.
AttributeOf(name) == Mangled("__" \o name)

\* Series.to_frame(column).reset_index(), DataFrame.reset_index(): the
\* index becomes a column of a new frame.
ResetIndex(indexName, column, data) ==
    [columns |-> <<indexName, column>>, data |-> data]

\* What the body of an accessor returns: `alias` says whether the caller
\* gets the engine's own object (TRUE) or a new object (FALSE).
AccessorReturn(obj, name) ==
    LET value == obj[AttributeOf(name)]
    IN  IF name \in GraphAccessors
        THEN [attr |-> AttributeOf(name), alias |-> TRUE, obj |-> value]
        ELSE IF name \in {"diversity", "ubiquity"}
        THEN [attr |-> AttributeOf(name), alias |-> FALSE,
              obj |-> ResetIndex(IF name = "diversity" THEN obj[Mangled("__c")]
                                 ELSE obj[Mangled("__p")], name, value)]
        ELSE IF name \in {"eci", "pci"}
        THEN [attr |-> AttributeOf(name), alias |-> FALSE,
              obj |-> ResetIndex(IF name = "eci" THEN obj[Mangled("__c")]
                                 ELSE obj[Mangled("__p")], name, value)]
        ELSE [attr |-> AttributeOf(name), alias |-> FALSE, obj |-> value]

\* The guard that decorates an accessor.
GuardOf(obj, name) ==
    IF name \in GraphAccessors THEN check_if_graph(obj) ELSE check_if_indexes(obj)

GuardMessage(name) ==
    IF name \in GraphAccessors THEN "First, create the Product Space!"
    ELSE "First, calculate indexes!"

(***************************************************************************)
(* The state machine.                                                      *)
(*   args  the arguments the caller constructs the engine with;            *)
(*   self  the instance: attribute name -> value;                          *)
(*   last  the last call made on the instance and how it ended;            *)
(*   held  the object the last call handed to the caller, while the        *)
(*         caller has not made another call on the engine.                 *)
(***************************************************************************)
Thresholds == {Zero, <<1, 2>>, One, <<3, 2>>}           \* m_cp_thresh
EdgeThresholds == {<<1, 2>>, <<13, 20>>, One}      \* edge_weight_thresh

RowTypes == [country : Entities, product : Items, export : Values]

Tables == {[kind |-> "DataFrame", rows |-> R] :
               R \in {S \in SUBSET RowTypes :
                          Cardinality(S) >= 1 /\ Cardinality(S) <= MaxRows}}

NotATable == [kind |-> "NoneType", rows |-> {}]

NoObject == [attr |-> "", alias |-> FALSE, obj |-> <<>>]

Call(op, name, arg, exc, msg) ==
    [op |-> op, name |-> name, arg |-> arg, exc |-> exc, msg |-> msg,
     generated |-> FALSE, ci |-> <<>>]

Constructed == hasattr(self, Mangled("__df"))

\* calculate_indexes has run to its end: __calc_distance, its last stage,
\* has stored its result.
IndexesCalculated == hasattr(self, Mangled("__distance"))

\* create_product_space has run to its end.
ProductSpaceCreated == hasattr(self, Mangled("__product_space"))

Init ==
    /\ args \in [df : Tables \cup {NotATable}, c : {"country"}, p : {"product"},
                 values : {"export"}, m_cp_thresh : Thresholds]
    /\ self = <<>>
    /\ last = Call("none", "", Zero, "none", "")
    /\ held = NoObject

\* Complexity.__init__
Construct ==
    /\ last.op = "none"
    /\ IF check_df(args.df) # "ok"
       THEN /\ last' = Call("__init__", "", Zero, check_df(args.df),
                            "df must be a pandas.DataFrame.")
            /\ self' = self
       ELSE /\ last' = Call("__init__", "", Zero, "ok", "")
            /\ self' = setattr(setattr(setattr(setattr(setattr(self,
                           Mangled("__df"), args.df),
                           Mangled("__c"), args.c),
                           Mangled("__p"), args.p),
                           Mangled("__values"), args.values),
                           Mangled("__m_cp_thresh"), args.m_cp_thresh)
    /\ held' = NoObject
    /\ UNCHANGED args

\* A call of calculate_indexes.
CalculateIndexes ==
    /\ Constructed
    /\ \E out \in calculate_indexes(self) :
          /\ self' = out.self
          /\ last' = [Call("calculate_indexes", "", Zero, out.exc, "")
                         EXCEPT !.ci = out.ci]
    /\ held' = NoObject
    /\ UNCHANGED args

\* The body of an accessor, run on the instance.
RunAccessor(name) ==
    IF hasattr(self, AttributeOf(name))
    THEN /\ held' = AccessorReturn(self, name)
         /\ last' = Call("get", name, Zero, "ok", "")
    ELSE /\ held' = NoObject
         /\ last' = Call("get", name, Zero, "AttributeError", "")

\* A read of the property `name`: the guard, then the body.
Accessor(name) ==
    /\ Constructed
    /\ IF GuardOf(self, name)
       THEN RunAccessor(name)
       ELSE /\ last' = Call("get", name, Zero, "Exception", GuardMessage(name))
            /\ held' = NoObject
    /\ UNCHANGED <<args, self>>

\* The body of create_product_space, run on the instance.
RunCreateProductSpace(edge_weight_thresh) ==
    IF ~hasattr(self, Mangled("__proximity"))
    THEN /\ self' = self
         /\ held' = NoObject
         /\ last' = Call("create_product_space", "", edge_weight_thresh,
                         "AttributeError", "")
    ELSE /\ self' = create_product_space(self, edge_weight_thresh)
         /\ held' = NoObject
         /\ last' = [Call("create_product_space", "", edge_weight_thresh, "ok", "")
                        EXCEPT !.generated = GraphsMissing(self)]

\* A call of create_product_space: the guard check_if_indexes, then the body.
CreateProductSpace(edge_weight_thresh) ==
    /\ Constructed
    /\ IF check_if_indexes(self)
       THEN RunCreateProductSpace(edge_weight_thresh)
       ELSE /\ last' = Call("create_product_space", "", edge_weight_thresh,
                            "Exception", "First, calculate indexes!")
            /\ self' = self
            /\ held' = NoObject
    /\ UNCHANGED args

Next ==
    \/ Construct
    \/ CalculateIndexes
    \/ \E name \in Accessors : Accessor(name)
    \/ \E t \in EdgeThresholds : CreateProductSpace(t)

Spec == Init /\ [][Next]_vars

(***************************************************************************)
(* The engine driven through the undecorated functions.  functools.wraps   *)
(* keeps the function a guard decorates as __wrapped__; the actions below  *)
(* run those functions on an instance whose indexes are calculated, that   *)
(* is what a call does once its guard lets it through.  The caller may     *)
(* change in place the object an accessor handed to it.                    *)
(***************************************************************************)
WrappedAccessor(name) ==
    /\ IndexesCalculated
    /\ RunAccessor(name)
    /\ UNCHANGED <<args, self>>

WrappedCreateProductSpace(edge_weight_thresh) ==
    /\ IndexesCalculated
    /\ RunCreateProductSpace(edge_weight_thresh)
    /\ UNCHANGED args

\* An in-place change of an object: Graph.clear(), or dropping every row of
\* a frame with inplace=True.
ChangedInPlace(obj) ==
    IF "nodes" \in DOMAIN obj THEN Graph({}, {}, LAMBDA e : Zero)
    ELSE IF "val" \in DOMAIN obj THEN Frame({}, obj.columns, LAMBDA r, k : Zero)
    ELSE [obj EXCEPT !.data = <<>>]

\* The caller changes the object it holds; when that object is the
\* engine's own, the attribute it came from changes with it.
CallerMutate ==
    /\ held.attr # ""
    /\ held' = NoObject
    /\ self' = IF held.alias THEN setattr(self, held.attr, ChangedInPlace(held.obj))
               ELSE self
    /\ last' = Call("mutate", held.attr, Zero, "ok", "")
    /\ UNCHANGED args

NextProductSpace ==
    \/ Construct
    \/ CalculateIndexes
    \/ \E t \in EdgeThresholds : WrappedCreateProductSpace(t)

SpecProductSpace == Init /\ [][NextProductSpace]_vars

NextAccessors ==
    \/ Construct
    \/ CalculateIndexes
    \/ \E t \in EdgeThresholds : WrappedCreateProductSpace(t)
    \/ \E name \in Accessors : WrappedAccessor(name)
    \/ CallerMutate

SpecAccessors == Init /\ [][NextAccessors]_vars

(***************************************************************************)
(* The claims.                                                             *)
(***************************************************************************)

\* C1: once calculate_indexes() has completed, every index accessor and
\* create_product_space() pass their guard and run instead of raising; and
\* once create_product_space() has completed, complete_graph, maxst and
\* product_space pass theirs.
C1_GuardsPassAfterStage ==
    /\ (IndexesCalculated /\ last.op = "get" /\ last.name \in IndexAccessors)
           => last.exc = "ok"
    /\ (IndexesCalculated /\ last.op = "create_product_space") => last.exc = "ok"
    /\ (ProductSpaceCreated /\ last.op = "get" /\ last.name \in GraphAccessors)
           => last.exc = "ok"

\* C2: while calculate_indexes() has not completed, every index accessor
\* and create_product_space() fail with the guard's error, and so do
\* complete_graph, maxst and product_space while create_product_space() has
\* not completed; a call that fails so leaves the instance as it was.
C2_GuardsFailBeforeStage ==
    /\ [](/\ (~IndexesCalculated /\ last.op = "get" /\ last.name \in IndexAccessors)
                 => (last.exc = "Exception" /\ last.msg = "First, calculate indexes!")
          /\ (~IndexesCalculated /\ last.op = "create_product_space")
                 => (last.exc = "Exception" /\ last.msg = "First, calculate indexes!")
          /\ (~ProductSpaceCreated /\ last.op = "get" /\ last.name \in GraphAccessors)
                 => (last.exc = "Exception"
                     /\ last.msg = "First, create the Product Space!"))
    /\ [][(last'.op \in {"get", "create_product_space"} /\ last'.exc = "Exception")
              => self' = self]_vars

\* C2's case: calculate_indexes() stopped at the eigen-decomposition, with
\* M already stored, and a read of m was refused.
C2_Witness ==
    /\ hasattr(self, Mangled("__m"))
    /\ ~IndexesCalculated
    /\ last.op = "get"
    /\ last.name = "m"
    /\ last.exc = "Exception"

\* C3: constructing with a table that is not a DataFrame fails with a
\* TypeError before any attribute is assigned; constructing with a
\* DataFrame succeeds and stores c, p, values and m_cp_thresh as given.
C3_ConstructorTypeError ==
    last.op = "__init__" =>
        IF args.df.kind # "DataFrame"
        THEN last.exc = "TypeError" /\ DOMAIN self = {}
        ELSE /\ last.exc = "ok"
             /\ self[Mangled("__c")] = args.c
             /\ self[Mangled("__p")] = args.p
             /\ self[Mangled("__values")] = args.values
             /\ self[Mangled("__m_cp_thresh")] = args.m_cp_thresh

\* C4: every cell of the stored M_cp is 1 when RCA >= tau and 0 in every
\* other case, a cell of undefined RCA included.
C4_McpBinary ==
    hasattr(self, Mangled("__m_cp")) =>
        LET rca == self[Mangled("__rca")]
            m_cp == self[Mangled("__m_cp")]
            tau == self[Mangled("__m_cp_thresh")]
        IN  \A cell \in DOMAIN m_cp.val :
                m_cp.val[cell] = IF FGe(rca.val[cell], tau) THEN One ELSE Zero

\* C5: the rows of the stored M_cp are exactly the entities with at least
\* one 1 and its columns exactly the items with at least one 1, so that
\* diversity and ubiquity are >= 1.
C5_ZeroRowsAndColumnsStripped ==
    hasattr(self, Mangled("__ubiquity")) =>
        LET m_cp == self[Mangled("__m_cp")]
        IN  /\ \A r \in m_cp.index : \E k \in m_cp.columns : m_cp.val[<<r, k>>] = One
            /\ \A k \in m_cp.columns : \E r \in m_cp.index : m_cp.val[<<r, k>>] = One
            /\ \A r \in m_cp.index : FGe(self[Mangled("__diversity")].val[r], One)
            /\ \A k \in m_cp.columns : FGe(self[Mangled("__ubiquity")].val[k], One)

\* C6: the stored proximity matrix is symmetric, 0 on the diagonal, and
\* off the diagonal the defined number, in [0, 1],
\*   (entities specialized in both p and q) / max(ubiquity[p], ubiquity[q]).
C6_Proximity ==
    hasattr(self, Mangled("__proximity")) =>
        LET phi == self[Mangled("__proximity")]
            m_cp == self[Mangled("__m_cp")]
            both(p, q) == Cardinality({c \in m_cp.index :
                              m_cp.val[<<c, p>>] = One /\ m_cp.val[<<c, q>>] = One})
            ubiquity(p) == both(p, p)
            larger(p, q) == IF ubiquity(p) > ubiquity(q) THEN ubiquity(p)
                            ELSE ubiquity(q)
        IN  /\ phi.index = m_cp.columns
            /\ phi.columns = m_cp.columns
            /\ \A p, q \in m_cp.columns :
                  /\ phi.val[<<p, q>>] = phi.val[<<q, p>>]
                  /\ p = q => phi.val[<<p, q>>] = Zero
                  /\ p # q => /\ IsFinite(phi.val[<<p, q>>])
                              /\ FGe(phi.val[<<p, q>>], Zero)
                              /\ FGe(One, phi.val[<<p, q>>])
                              /\ larger(p, q) > 0
                              /\ phi.val[<<p, q>>] = Frac(both(p, q), larger(p, q))

\* C6's case: a proximity strictly between 0 and 1.
C6_Witness ==
    /\ hasattr(self, Mangled("__proximity"))
    /\ \E cell \in DOMAIN self[Mangled("__proximity")].val :
          self[Mangled("__proximity")].val[cell] = <<1, 2>>

\* C7: after create_product_space(t) the edges of the product space are the
\* edges of the maximum spanning tree together with exactly the edges of
\* the complete graph of weight > t, the edges of the complete graph being
\* the pairs of items of nonzero proximity.
C7_ProductSpaceEdges ==
    (last.op = "create_product_space" /\ last.exc = "ok") =>
        LET cg == self[Mangled("__complete_graph")]
            maxst == self[Mangled("__maxst")]
            ps == self[Mangled("__product_space")]
            phi == self[Mangled("__proximity")]
            t == last.arg
        IN  /\ cg.edges = {e \in phi.columns \X phi.columns :
                              e[1] < e[2] /\ phi.val[e] # Zero}
            /\ \A e \in cg.edges : cg.weight[e] = phi.val[e]
            /\ maxst.edges \subseteq cg.edges
            /\ ps.edges = maxst.edges \cup {e \in cg.edges : FGt(cg.weight[e], t)}
            /\ \A e \in ps.edges : ps.weight[e] = cg.weight[e]
            /\ \A e \in cg.edges \ maxst.edges :
                  FGe(t, cg.weight[e]) => e \notin ps.edges

\* C7's case: create_product_space(t) has added an edge to the tree and
\* has left out another edge of the complete graph.
C7_Witness ==
    /\ last.op = "create_product_space"
    /\ last.exc = "ok"
    /\ self[Mangled("__product_space")].edges # self[Mangled("__maxst")].edges

\* C7's other case: an edge outside the tree whose weight is exactly t.
C7_WitnessAtThreshold ==
    /\ last.op = "create_product_space"
    /\ last.exc = "ok"
    /\ \E e \in self[Mangled("__complete_graph")].edges \ self[Mangled("__maxst")].edges :
          self[Mangled("__complete_graph")].weight[e] = last.arg

\* C8: a call of create_product_space() on an instance on which
\* create_product_space() has already run does not generate the complete
\* graph and the maximum spanning tree again, and leaves both as they were.
C8_GraphsGeneratedOnce ==
    [][(ProductSpaceCreated /\ last'.op = "create_product_space" /\ last'.exc = "ok")
          => /\ ~last'.generated
             /\ self'[Mangled("__complete_graph")] = self[Mangled("__complete_graph")]
             /\ self'[Mangled("__maxst")] = self[Mangled("__maxst")]]_vars

\* C9: whatever the caller does to the object an accessor returned, the
\* engine's artifacts are unchanged.
C9_AccessorsReturnCopies ==
    [][last'.op = "mutate" => self' = self]_vars

\* C10: the sign correction of the ECI changes the standardized eigenvector
\* only when its correlation with the diversity is negative, and then
\* multiplies it by -1; in every other case (positive, zero, undefined) the
\* vector is returned as it was, so that a vector of mean 0 and standard
\* deviation 1 stays one.
C10_SignCorrection ==
    (last.op = "calculate_indexes" /\ hasattr(self, Mangled("__eci"))) =>
        LET ci == last.ci
            eci == self[Mangled("__eci")]
            negative == CorrSign(self[Mangled("__diversity")], ci) = FNeg(One)
        IN  /\ negative => eci = Scaled(ci, FNeg(One))
            /\ ~negative => eci = ci
            /\ ci.kind = "std" => eci.kind = "std"

====
